---- MODULE Spec2Model ----
(***************************************************************************)
(* Content resolution pipeline of the poetry website: the frontmatter      *)
(* parser (js/content-loader.js and its copies), poem discovery, document  *)
(* fetching, image probing and record construction                         *)
(* (js/dynamic-poem-loader.js in its two generations).                     *)
(*                                                                         *)
(* A JavaScript string is modelled as a sequence of one-character strings, *)
(* so that split, trim, substring and the frontmatter regular expression   *)
(* are computed, not assumed.                                              *)
(*                                                                         *)
(* Specifications: Spec and FairSpec (a call of fetchAllPoemsEnhanced),    *)
(* SpecAll (the same over every limit and a store that also serves a       *)
(* document declaring id), SpecParse (both parsers on one document),       *)
(* SpecPage and SpecCards (the image URLs the pages build), SpecLegacy     *)
(* (the multi-root discoverAllPoems), SpecDelegate (the content loader     *)
(* that delegates to fetchAllPoemsEnhanced) and SpecArchive (the handlers  *)
(* of archive.html, interleaved).                                          *)
(***************************************************************************)
EXTENDS Integers, Sequences, FiniteSets, TLC

VARIABLES
    markdownContent,  \* parser run: the document handed to parsePoemFileContent
    parsed,           \* parser run: result of the parser the pages load
    parsedQuoted,     \* parser run: result of the quote-aware parser
    ppc,              \* parser run: "idle", "input" before the call, "parsed" after
    loader,           \* which dynamic-poem-loader.js the page loaded: "static" or "folders"
    limit,            \* the argument of fetchAllPoemsEnhanced (NoLimit for null)
    pc,               \* where fetchAllPoemsEnhanced is suspended
    listing,          \* answer of the GitHub listing request
    poemFolders,      \* discoverAllPoemsFromFolders: the numbered directories
    poems,            \* discoverAllPoemsFromFolders: locators pushed so far
    poemPaths,        \* fetchAllPoemsEnhanced: what discovery returned
    pathsToProcess,   \* fetchAllPoemsEnhanced: poemPaths after the limit
    idx,              \* number of the item of pathsToProcess being processed
    current,          \* the parsed document of the item being probed
    probes,           \* HEAD probes issued for the latest probed item
    poemsData,        \* the records pushed so far (the return value at "done")
    fetchLog,         \* the document GETs issued so far, with their outcomes
    checkLog,         \* discoverAllPoemsFromFolders: the poem.md checks made so far
    discovery,        \* how the promise of the discovery call settled
    hostname,         \* window.location.hostname of the page
    imageFiles,       \* the extensions ext for which the containers of the file
                      \* store hold image.<ext> (the same in every container)
    documents,        \* the documents the file store may serve as a poem.md
    uses,             \* page run: the calls of getPoemImagePath made so far
    legacy,           \* legacy run: the state of the multi-root discoverAllPoems
    enhanced,         \* delegating run: window.fetchAllPoemsEnhanced, the calls
                      \* made of it and how the last one settled
    store,            \* archive page run: the answer of the file store per path
    handlers,         \* archive page run: the DOMContentLoaded handlers, each
                      \* with the state of its own call of fetchAllPoems
    dom               \* archive page run: the element #archive-content-area

pvars == <<markdownContent, parsed, parsedQuoted, ppc>>

lvars == <<loader, limit, pc, listing, poemFolders, poems, poemPaths,
           pathsToProcess, idx, current, probes, poemsData, fetchLog, checkLog,
           discovery>>

\* the environment of a run, and the history of the page's image calls
evars == <<hostname, imageFiles, documents>>

\* the state of the runs of the other loaders and of the pages
xvars == <<legacy, enhanced, store, handlers, dom>>

vars == <<pvars, lvars, evars, uses, xvars>>

----------------------------------------------------------------------------
(* Bounds of the model *)

\* longest tail of a generated metadata line, in tokens
MaxLineToks == 3

\* entries of the hardcoded fallback list kept by the model: the lists of
\* the source run from Poetry/1/poem.md to Poetry/74/poem.md, the model's
\* from Poetry/1/poem.md to Poetry/<NumStatic>/poem.md
NumStatic == 3

\* most calls of getPoemImagePath in a page run
MaxUses == 2

\* largest limit a caller passes
MaxLimit == 2

\* most entries in an answer of the listing API
MaxEntries == 2

----------------------------------------------------------------------------
(* String primitives (String.prototype) *)

\* the characters \s matches and trim() removes, within the model's alphabet
WS == {" ", "\n"}

Dashes == <<"-", "-", "-">>

\* s.startsWith(p, i - 1): p occurs in s at (1-based) position i
HasAt(s, i, p) ==
    /\ i >= 1
    /\ i + Len(p) - 1 <= Len(s)
    /\ SubSeq(s, i, i + Len(p) - 1) = p

\* first position >= i of s that holds no whitespace (Len(s) + 1 if none)
RECURSIVE SkipWs(_, _)
SkipWs(s, i) ==
    IF i <= Len(s) /\ s[i] \in WS THEN SkipWs(s, i + 1) ELSE i

\* last position <= i of s that holds no whitespace (0 if none)
RECURSIVE SkipWsBack(_, _)
SkipWsBack(s, i) ==
    IF i >= 1 /\ s[i] \in WS THEN SkipWsBack(s, i - 1) ELSE i

\* s.trim()
Trim(s) == SubSeq(s, SkipWs(s, 1), SkipWsBack(s, Len(s)))

\* positions of the character c in s
Positions(s, c) == {i \in 1..Len(s) : s[i] = c}

Min(S) == CHOOSE x \in S : \A y \in S : x <= y
Max(S) == CHOOSE x \in S : \A y \in S : x >= y

\* s.split(c) for a one-character separator: always at least one part
RECURSIVE Split(_, _)
Split(s, c) ==
    IF Positions(s, c) = {} THEN <<s>>
    ELSE LET i == Min(Positions(s, c))
         IN <<SubSeq(s, 1, i - 1)>> \o Split(SubSeq(s, i + 1, Len(s)), c)

\* parts.join(c)
RECURSIVE Join(_, _)
Join(parts, c) ==
    IF Len(parts) = 0 THEN <<>>
    ELSE IF Len(parts) = 1 THEN parts[1]
    ELSE parts[1] \o <<c>> \o Join(Tail(parts), c)

\* concatenation of a sequence of strings
RECURSIVE Concat(_)
Concat(parts) ==
    IF Len(parts) = 0 THEN <<>> ELSE parts[1] \o Concat(Tail(parts))

----------------------------------------------------------------------------
(* The frontmatter parser *)

\* /^---\s*([\s\S]*?)\s*---/.exec(s).  A way to match is <<a, e, q>>: the
\* first \s* ends before a, the lazy group is s[a..e-1], the second \s* is
\* s[e..q-1] and the closing --- sits at q.  Backtracking prefers the
\* longest first \s*, then the shortest group, then the longest second \s*.
frontMatterRegex(s) ==
    IF ~HasAt(s, 1, Dashes) THEN [found |-> FALSE]
    ELSE
      LET ways == UNION {UNION {{<<a, e, q>> :
                                    q \in {x \in e..SkipWs(s, e) : HasAt(s, x, Dashes)}} :
                                 e \in a..(Len(s) + 1)} :
                          a \in 4..SkipWs(s, 4)}
      IN IF ways = {} THEN [found |-> FALSE]
         ELSE
           LET a == Max({w[1] : w \in ways})
               e == Min({w[2] : w \in {v \in ways : v[1] = a}})
               q == Max({w[3] : w \in {v \in ways : v[1] = a /\ v[2] = e}})
           IN [found |-> TRUE,
               group |-> SubSeq(s, a, e - 1),    \* match[1]
               length |-> q + 2]                 \* match[0].length

\* a callback that keeps parts[1] alone as the value, losing what follows
\* a second colon
ParseLineSecondPartOnly(line) ==
    LET parts == Split(line, ":")
    IN IF Len(parts) >= 2 THEN <<Trim(parts[1]), Trim(parts[2])>> ELSE <<>>

\* the forEach callback of js/content-loader.js: the entry a line adds,
\* <<key, value>>, or <<>> when the line has fewer than two parts
ParseLine(line) ==
    LET parts == Split(line, ":")
    IN IF Len(parts) >= 2
       THEN <<Trim(parts[1]), Trim(Join(Tail(parts), ":"))>>
       ELSE <<>>

\* value.startsWith(c) && value.endsWith(c)
Quoted(value, c) == HasAt(value, 1, <<c>>) /\ HasAt(value, Len(value), <<c>>)

\* value.slice(1, -1)
SliceInner(value) == SubSeq(value, 2, Len(value) - 1)

\* the forEach callback of the quote-aware parser
ParseLineQuoted(line) ==
    LET parts == Split(line, ":")
    IN IF Len(parts) >= 2
       THEN LET value == Trim(Join(Tail(parts), ":"))
            IN <<Trim(parts[1]),
                 IF Quoted(value, "\"") \/ Quoted(value, "'")
                 THEN SliceInner(value) ELSE value>>
       ELSE <<>>

\* frontMatter after the callback ran on lines[1..n]: a later line
\* overwrites the entry of an earlier line with the same key
RECURSIVE AssignLines(_, _, _)
AssignLines(lines, n, quoteAware) ==
    IF n = 0 THEN <<>>
    ELSE LET before == AssignLines(lines, n - 1, quoteAware)
             kv == IF quoteAware THEN ParseLineQuoted(lines[n])
                   ELSE ParseLine(lines[n])
         IN IF kv = <<>> THEN before
            ELSE [k \in DOMAIN before \cup {kv[1]} |->
                     IF k = kv[1] THEN kv[2] ELSE before[k]]

\* the body shared by the two parsers
ParseWith(s, quoteAware) ==
    LET match == frontMatterRegex(s)
    IN IF match.found
       THEN [frontMatter |->
                LET lines == Split(match.group, "\n")
                IN AssignLines(lines, Len(lines), quoteAware),
             poemText |-> Trim(SubSeq(s, match.length + 1, Len(s)))]
       ELSE [frontMatter |-> <<>>, poemText |-> Trim(s)]

\* parsePoemFileContent of js/content-loader.js and js/dynamic-poem-loader.js
parsePoemFileContent(s) == ParseWith(s, FALSE)

\* parsePoemFileContent of the quote-aware content loader
parsePoemFileContentQuoted(s) == ParseWith(s, TRUE)

----------------------------------------------------------------------------
(* Documents handed to the parser *)

RECURSIVE SeqsUpTo(_, _)
SeqsUpTo(S, n) ==
    IF n = 0 THEN {<<>>}
    ELSE LET shorter == SeqsUpTo(S, n - 1)
         IN shorter \cup {Append(t, x) : t \in {u \in shorter : Len(u) = n - 1}, x \in S}

LineToks == {<<"k">>, <<":">>, <<" ">>, <<"\"">>, <<"'">>, Dashes}
LinePrefixes == {<<>>, <<"k", ":">>, <<"t", ":", " ">>}
FirstLines == {p \o Concat(t) : p \in LinePrefixes, t \in SeqsUpTo(LineToks, MaxLineToks)}
SecondLines == {<<>>, <<"\n", "k", ":", "b">>, <<"\n", "t", "t">>}
Opens == {<<>>, <<"-", "-", "-", "\n">>}
Closes == {<<>>, <<"\n", "-", "-", "-">>, <<"\n", "-", "-", "-", "\n">>}
Bodies == {<<>>, <<"b", " ", "\n">>}

\* the documents built around the given first lines
Documents(firstLines) ==
    {o \o l \o m \o c \o b :
        o \in Opens, l \in firstLines, m \in SecondLines, c \in Closes, b \in Bodies}

NotParsed == [frontMatter |-> <<>>, poemText |-> <<>>]

----------------------------------------------------------------------------
(* Strings of the loaders *)

Slash == "/"
Poetry == <<"P", "o", "e", "t", "r", "y">>
PoemMd == <<"p", "o", "e", "m", ".", "m", "d">>
DotMd == <<".", "m", "d">>
PoemUnderscore == <<"p", "o", "e", "m", "_">>
ImageDot == <<"i", "m", "a", "g", "e", ".">>
Png == <<"p", "n", "g">>
Jpg == <<"j", "p", "g">>
Jpeg == <<"j", "p", "e", "g">>
Webp == <<"w", "e", "b", "p">>

\* the property names of a record
Kid == <<"i", "d">>
Kcontent == <<"c", "o", "n", "t", "e", "n", "t">>
Ktitle == <<"t", "i", "t", "l", "e">>
Kauthor == <<"a", "u", "t", "h", "o", "r">>
Koriginal_path == <<"o", "r", "i", "g", "i", "n", "a", "l", "_", "p", "a", "t", "h">>
Klanguage == <<"l", "a", "n", "g", "u", "a", "g", "e">>
Kform == <<"f", "o", "r", "m">>
Klength == <<"l", "e", "n", "g", "t", "h">>
Kimage == <<"i", "m", "a", "g", "e">>
KfilePath == <<"f", "i", "l", "e", "P", "a", "t", "h">>
KpoemNumber == <<"p", "o", "e", "m", "N", "u", "m", "b", "e", "r">>
KfolderPath == <<"f", "o", "l", "d", "e", "r", "P", "a", "t", "h">>

Untitled == <<"U", "n", "t", "i", "t", "l", "e", "d">>
UnknownAuthor == <<"U", "n", "k", "n", "o", "w", "n", " ", "A", "u", "t", "h", "o", "r">>
unknown == <<"u", "n", "k", "n", "o", "w", "n">>

DigitChars == <<"0", "1", "2", "3", "4", "5", "6", "7", "8", "9">>

\* the decimal numeral of n, as written in the static path lists
RECURSIVE Decimal(_)
Decimal(n) ==
    IF n < 10 THEN <<DigitChars[n + 1]>>
    ELSE Decimal(n \div 10) \o <<DigitChars[(n % 10) + 1]>>

\* /^\d+$/.test(name)
IsDigits(name) ==
    /\ Len(name) >= 1
    /\ \A i \in 1..Len(name) : \E d \in 1..10 : DigitChars[d] = name[i]

\* parseInt(name) of a string of digits
RECURSIVE parseInt(_)
parseInt(name) ==
    IF Len(name) = 0 THEN 0
    ELSE parseInt(SubSeq(name, 1, Len(name) - 1)) * 10
         + (CHOOSE d \in 0..9 : DigitChars[d + 1] = name[Len(name)])

\* s.lastIndexOf(c), 1-based (0 when c does not occur)
LastIndexOf(s, c) == IF Positions(s, c) = {} THEN 0 ELSE Max(Positions(s, c))

\* s.split(c).pop()
SplitPop(s, c) == LET parts == Split(s, c) IN parts[Len(parts)]

\* s.replace(pat, ''), pat a string: the first occurrence is removed
ReplaceFirst(s, pat) ==
    LET at == {i \in 1..Len(s) : HasAt(s, i, pat)}
    IN IF at = {} THEN s
       ELSE SubSeq(s, 1, Min(at) - 1) \o SubSeq(s, Min(at) + Len(pat), Len(s))

\* s.replace(/\/$/, '')
DropTrailingSlash(s) ==
    IF Len(s) >= 1 /\ s[Len(s)] = Slash THEN SubSeq(s, 1, Len(s) - 1) ELSE s

----------------------------------------------------------------------------
(* Discovery *)

\* the staticPaths array, cut to NumStatic entries
staticPaths == [i \in 1..NumStatic |-> Poetry \o <<Slash>> \o Decimal(i) \o <<Slash>> \o PoemMd]

\* getFallbackPoemPaths of js/dynamic-poem-loader.js
getFallbackPoemPaths ==
    [i \in 1..NumStatic |->
        [path |-> staticPaths[i],
         name |-> SplitPop(staticPaths[i], Slash),
         directory |-> SubSeq(staticPaths[i], 1, LastIndexOf(staticPaths[i], Slash))]]

\* getFallbackPoemPathsForFolders of the probing loader
getFallbackPoemPathsForFolders ==
    [i \in 1..NumStatic |->
        [path |-> staticPaths[i],
         name |-> ReplaceFirst(SplitPop(staticPaths[i], Slash), DotMd),
         directory |-> SubSeq(staticPaths[i], 1, LastIndexOf(staticPaths[i], Slash)),
         poemNumber |-> Split(staticPaths[i], Slash)[2]]]

\* the locator discoverAllPoemsFromFolders pushes for a folder
FolderLocator(folderName) ==
    [path |-> Poetry \o <<Slash>> \o folderName \o <<Slash>> \o PoemMd,
     name |-> PoemUnderscore \o folderName,
     directory |-> Poetry \o <<Slash>> \o folderName \o <<Slash>>,
     poemNumber |-> folderName]

\* a filter that tests the name and forgets the type
RECURSIVE FilterFoldersAnyType(_)
FilterFoldersAnyType(contents) ==
    IF Len(contents) = 0 THEN <<>>
    ELSE (IF IsDigits(contents[1].name) THEN <<contents[1]>> ELSE <<>>)
         \o FilterFoldersAnyType(Tail(contents))

\* contents.filter(item => item.type === 'dir' && /^\d+$/.test(item.name))
RECURSIVE FilterFolders(_)
FilterFolders(contents) ==
    IF Len(contents) = 0 THEN <<>>
    ELSE (IF contents[1].type = "dir" /\ IsDigits(contents[1].name)
          THEN <<contents[1]>> ELSE <<>>) \o FilterFolders(Tail(contents))

\* no sort: the locators stay in the order they were pushed
InsertAtEnd(sorted, x) == Append(sorted, x)

\* one step of the (stable) sort: x goes after every element not above it
InsertByNumber(sorted, x) ==
    LET notAbove == {i \in 1..Len(sorted) :
                        parseInt(sorted[i].poemNumber) <= parseInt(x.poemNumber)}
        at == IF notAbove = {} THEN 0 ELSE Max(notAbove)
    IN SubSeq(sorted, 1, at) \o <<x>> \o SubSeq(sorted, at + 1, Len(sorted))

\* poems.sort((a, b) => parseInt(a.poemNumber) - parseInt(b.poemNumber))
RECURSIVE SortByNumber(_)
SortByNumber(list) ==
    IF Len(list) = 0 THEN <<>>
    ELSE InsertByNumber(SortByNumber(SubSeq(list, 1, Len(list) - 1)), list[Len(list)])

\* what the listing request can answer: a transport error, a non-success
\* status, a body that is no JSON, a JSON value that is no array, an array
ListingFailures == {"neterr", "status", "notjson", "notarray"}

\* what discoverAllPoemsFromFolders returns when the listing answered with
\* such a failure: the catch block returns the fallback list; a response
\* that is not ok skips the if block and returns the empty poems array
ListingFailureResult(outcome) ==
    IF outcome = "status" THEN <<>> ELSE getFallbackPoemPathsForFolders

\* a discovery without the catch block: what fetch, json() or filter throw
\* rejects the promise
ListingFailureSettlesUncaught(outcome) ==
    IF outcome = "status" THEN "resolved" ELSE "rejected"

\* how the promise of discoverAllPoemsFromFolders settles after such a
\* failure: a response that is not ok throws nothing, and what fetch,
\* json() or filter throw is caught by the catch block of the function
ListingFailureSettles(outcome) == "resolved"

\* names and entries the listing API may return
EntryNames == {<<"7">>, <<"1", "0">>, <<"d">>}
Entries == [name : EntryNames, type : {"dir", "file"}]
Listings ==
    {l \in SeqsUpTo(Entries, MaxEntries) :
        \A i, j \in 1..Len(l) : i # j => l[i].name # l[j].name}

----------------------------------------------------------------------------
(* The environment: the host of the page and the static file store *)

\* hosts the page may be served from: the two loopback names the pages
\* test for, and the GitHub Pages host
Hostnames == {"localhost", "127.0.0.1", "manasp21.github.io"}

\* the host of the loader runs of Spec, a loopback name; the runs of
\* FairSpec are those on the deployed host (the loaders themselves never
\* read the hostname)
RunHosts == {"localhost"}

\* the image files the containers of the store may hold
ImageStores == {{}, {Png, Jpeg}}

\* `/poetry_website/${filePath}`: the URL both loaders request for a path
RequestUrl(path) == <<"/", "p", "o", "e", "t", "r", "y", "_", "w", "e", "b", "s", "i", "t", "e", "/">> \o path

\* how the request for image.<ext> may settle: it succeeds only when the
\* file exists; a non-success status or a transport error may always occur
ProbeOutcomes(ext) ==
    IF ext \in imageFiles THEN {"ok", "status", "neterr"} ELSE {"status", "neterr"}

----------------------------------------------------------------------------
(* Building a record *)

\* {...a, ...b}: the properties of b replace those of a
Spread(a, b) ==
    [k \in DOMAIN a \cup DOMAIN b |-> IF k \in DOMAIN b THEN b[k] ELSE a[k]]

\* a default applied only to a key the metadata does not hold
OrDefaultWhenAbsent(frontMatter, key, fallback) ==
    IF key \in DOMAIN frontMatter THEN frontMatter[key] ELSE fallback

\* frontMatter[key] || fallback
OrDefault(frontMatter, key, fallback) ==
    IF key \in DOMAIN frontMatter /\ frontMatter[key] # <<>>
    THEN frontMatter[key] ELSE fallback

\* the properties both loaders write after the spread of frontMatter
CommonFields(filePath, doc, image) ==
    (Kcontent :> doc.poemText)
    @@ (Ktitle :> OrDefault(doc.frontMatter, Ktitle, Untitled))
    @@ (Kauthor :> OrDefault(doc.frontMatter, Kauthor, UnknownAuthor))
    @@ (Koriginal_path :> OrDefault(doc.frontMatter, Koriginal_path, filePath))
    @@ (Klanguage :> OrDefault(doc.frontMatter, Klanguage, unknown))
    @@ (Kform :> OrDefault(doc.frontMatter, Kform, unknown))
    @@ (Klength :> OrDefault(doc.frontMatter, Klength, unknown))
    @@ (Kimage :> image)
    @@ (KfilePath :> filePath)

\* getImagePathForPoem of js/dynamic-poem-loader.js
getImagePathForPoem(poemPath) ==
    SubSeq(poemPath, 1, LastIndexOf(poemPath, Slash) - 1) \o <<Slash>> \o ImageDot \o Png

\* poemEntry of js/dynamic-poem-loader.js
StaticEntry(filePath, doc) ==
    Spread(Spread((Kid :> ReplaceFirst(SplitPop(filePath, Slash), DotMd)),
                  doc.frontMatter),
           CommonFields(filePath, doc, getImagePathForPoem(filePath)))

\* poemEntry of the probing loader
FolderEntry(poemInfo, doc, detectedImage) ==
    Spread(Spread((Kid :> PoemUnderscore \o poemInfo.poemNumber), doc.frontMatter),
           CommonFields(poemInfo.path, doc, detectedImage)
           @@ (KpoemNumber :> poemInfo.poemNumber)
           @@ (KfolderPath :> DropTrailingSlash(poemInfo.directory)))

\* const imageExtensions = ['png', 'jpg', 'jpeg', 'webp']
imageExtensions == <<Png, Jpg, Jpeg, Webp>>

\* `${folderPath}/image.${ext}`
ImagePath(poemInfo, ext) ==
    DropTrailingSlash(poemInfo.directory) \o <<Slash>> \o ImageDot \o ext

\* a request settles with a success status, a non-success status or a
\* transport error
Outcomes == {"ok", "status", "neterr"}

\* a probe loop that takes every answer, whatever its status, for a hit
ProbeHitUnlessThrown(outcome) == outcome # "neterr"

\* if (imageResponse.ok): a probe that threw is caught and counts as absent
ProbeHit(outcome) == outcome = "ok"

\* the documents the static file store may serve
\* title quoted, author plain, form declared with an empty value
DocKogarashi == <<"-", "-", "-", "\n", "t", "i", "t", "l", "e", ":", " ", "\"", "K", "o", "g", "a", "r", "a", "s", "h", "i", "\"", "\n", "a", "u", "t", "h", "o", "r", ":", " ", "M", "\n", "f", "o", "r", "m", ":", "\n", "-", "-", "-", "\n", "w", "i", "n", "d">>
DocPlain == <<"w", "i", "n", "d", "\n", "c", "o", "l", "d">>
StoreDocs == {DocKogarashi, DocPlain}

\* a document whose metadata declares keys named like properties the loader
\* writes itself: id, content and image
DocDeclaresId == <<"-", "-", "-", "\n", "i", "d", ":", " ", "x", "\n", "c", "o", "n", "t", "e", "n", "t", ":", " ", "c", "\n", "i", "m", "a", "g", "e", ":", " ", "i", "\n", "-", "-", "-", "\n", "w", "i", "n", "d">>
AllDocs == StoreDocs \cup {DocDeclaresId}

----------------------------------------------------------------------------
(* fetchAllPoemsEnhanced *)

\* limit = null
NoLimit == -1

\* the arguments the runs are started with: none, or a positive limit
Limits == {NoLimit} \cup 1..MaxLimit

\* a loop over poemPaths itself, the limit forgotten
PathsToProcessIgnoringLimit(paths, lim) == paths

\* limit ? poemPaths.slice(0, limit) : poemPaths
PathsToProcess(paths, lim) ==
    IF lim # NoLimit /\ lim # 0
    THEN SubSeq(paths, 1, IF lim < Len(paths) THEN lim ELSE Len(paths))
    ELSE paths

\* a loop that a failing item ends (break in place of continue)
AfterSkipAbort(i, n) == "done"

\* where the for loop goes after item i of n was skipped (continue)
AfterSkip(i, n) == IF i < n THEN "fetch" ELSE "done"

\* a loop body without its try/catch: a fetch that throws rejects the
\* promise of fetchAllPoemsEnhanced
AfterThrowUncaught(i, n) == "rejected"

\* where the for loop goes after the fetch of item i of n threw: the catch
\* block of the loop body logs the error and the loop goes on
AfterThrow(i, n) == IF i < n THEN "fetch" ELSE "done"

\* where the for loop goes after the record of item i of n was pushed
AfterPush(i, n) == IF i < n THEN "fetch" ELSE "done"

NoListing == [outcome |-> "none", contents |-> <<>>]

LoaderIdle ==
    /\ loader = "none"
    /\ limit = NoLimit
    /\ pc = "idle"
    /\ listing = NoListing
    /\ poemFolders = <<>>
    /\ poems = <<>>
    /\ poemPaths = <<>>
    /\ pathsToProcess = <<>>
    /\ idx = 0
    /\ current = NotParsed
    /\ probes = <<>>
    /\ poemsData = <<>>
    /\ fetchLog = <<>>
    /\ checkLog = <<>>
    /\ discovery = "pending"

\* discoverAllPoems of the legacy loader was not called
LegacyIdle == [pc |-> "idle", directory |-> 0, poems |-> <<>>, answers |-> <<>>]

\* window.fetchAllPoemsEnhanced is not defined and was not called
NoEnhanced == [defined |-> FALSE, calls |-> <<>>, outcome |-> "none", value |-> <<>>]

\* no page is open
NoPage == [className |-> "", shown |-> <<>>, by |-> "none"]

PageIdle ==
    /\ store = <<>>
    /\ handlers = <<>>
    /\ dom = NoPage

OthersIdle ==
    /\ legacy = LegacyIdle
    /\ enhanced = NoEnhanced
    /\ PageIdle

ParserIdle ==
    /\ markdownContent = <<>>
    /\ parsed = NotParsed
    /\ parsedQuoted = NotParsed
    /\ ppc = "idle"

\* a call of fetchAllPoemsEnhanced with an argument of limits, on a page
\* served from one of hosts, against a store that serves the documents docs
InitRun(limits, docs, hosts) ==
    /\ ParserIdle
    /\ loader \in {"static", "folders"}
    /\ limit \in limits
    /\ pc = "discover"
    /\ listing = NoListing
    /\ poemFolders = <<>>
    /\ poems = <<>>
    /\ poemPaths = <<>>
    /\ pathsToProcess = <<>>
    /\ idx = 0
    /\ current = NotParsed
    /\ probes = <<>>
    /\ poemsData = <<>>
    /\ fetchLog = <<>>
    /\ checkLog = <<>>
    /\ discovery = "pending"
    /\ hostname \in hosts
    /\ imageFiles \in ImageStores
    /\ documents = docs
    /\ uses = <<>>
    /\ OthersIdle

Init == InitRun(Limits, StoreDocs, RunHosts)

\* discovery returned: the limit is applied and the loop starts
DiscoveryReturns(discovered) ==
    /\ poemPaths' = discovered
    /\ pathsToProcess' = PathsToProcess(discovered, limit)
    /\ idx' = IF Len(PathsToProcess(discovered, limit)) = 0 THEN 0 ELSE 1
    /\ pc' = IF Len(PathsToProcess(discovered, limit)) = 0 THEN "done" ELSE "fetch"

\* js/dynamic-poem-loader.js: discoverAllPoems returns the static list, and
\* fetchAllPoemsEnhanced keeps the path of each entry
DiscoverStatic ==
    /\ pc = "discover"
    /\ loader = "static"
    /\ discovery' = "resolved"
    /\ DiscoveryReturns([i \in 1..NumStatic |-> getFallbackPoemPaths[i].path])
    /\ UNCHANGED <<loader, limit, listing, poemFolders, poems, current, probes,
                   poemsData, fetchLog,
                   checkLog>>
    /\ UNCHANGED pvars
    /\ UNCHANGED <<evars, uses, xvars>>

\* probing loader: the listing request of discoverAllPoemsFromFolders fails;
\* had discovery rejected, the catch of fetchAllPoemsEnhanced would take the
\* fallback list itself
ListingFails ==
    /\ pc = "discover"
    /\ loader = "folders"
    /\ \E outcome \in ListingFailures :
          /\ listing' = [outcome |-> outcome, contents |-> <<>>]
          /\ discovery' = ListingFailureSettles(outcome)
          /\ DiscoveryReturns(IF ListingFailureSettles(outcome) = "resolved"
                              THEN ListingFailureResult(outcome)
                              ELSE getFallbackPoemPathsForFolders)
    /\ UNCHANGED <<loader, limit, poemFolders, poems, current, probes, poemsData,
                   fetchLog,
                   checkLog>>
    /\ UNCHANGED pvars
    /\ UNCHANGED <<evars, uses, xvars>>

\* probing loader: the listing request answers with an array of entries
ListingAnswers ==
    /\ pc = "discover"
    /\ loader = "folders"
    /\ \E contents \in Listings :
          /\ listing' = [outcome |-> "ok", contents |-> contents]
          /\ poemFolders' = FilterFolders(contents)
          /\ IF Len(FilterFolders(contents)) = 0
             THEN /\ discovery' = "resolved"
                  /\ DiscoveryReturns(<<>>)
             ELSE /\ pc' = "check"
                  /\ idx' = 1
                  /\ UNCHANGED <<poemPaths, pathsToProcess, discovery>>
    /\ UNCHANGED <<loader, limit, poems, current, probes, poemsData, fetchLog,
                   checkLog>>
    /\ UNCHANGED pvars
    /\ UNCHANGED <<evars, uses, xvars>>

\* probing loader: the request that checks poem.md of folder idx settles;
\* after the last folder the locators are sorted and returned
CheckPoem ==
    /\ pc = "check"
    /\ \E outcome \in Outcomes :
          LET pushed == IF outcome = "ok"
                        THEN Append(poems, FolderLocator(poemFolders[idx].name))
                        ELSE poems
          IN /\ poems' = pushed
             /\ checkLog' = Append(checkLog, [name |-> poemFolders[idx].name,
                                              found |-> outcome = "ok"])
             /\ IF idx < Len(poemFolders)
                THEN /\ idx' = idx + 1
                     /\ UNCHANGED <<pc, poemPaths, pathsToProcess, discovery>>
                ELSE /\ discovery' = "resolved"
                     /\ DiscoveryReturns(SortByNumber(pushed))
    /\ UNCHANGED <<loader, limit, listing, poemFolders, current, probes,
                   poemsData, fetchLog>>
    /\ UNCHANGED pvars
    /\ UNCHANGED <<evars, uses, xvars>>

\* the path of item i of pathsToProcess
ItemPath(i) ==
    IF loader = "folders" THEN pathsToProcess[i].path ELSE pathsToProcess[i]

\* a loop whose index never moves on: the same item is requested again
AdvanceStaying(target) ==
    /\ pc' = target
    /\ idx' = idx

\* where the loop goes from item idx
Advance(target) ==
    /\ pc' = target
    /\ idx' = IF target = "fetch" THEN idx + 1 ELSE idx

\* the GET of the document of item idx answers non-2xx or fails: the item
\* is skipped
FetchFails ==
    /\ pc = "fetch"
    /\ \E outcome \in Outcomes \ {"ok"} :
          /\ fetchLog' = Append(fetchLog, [path |-> ItemPath(idx),
                                           url |-> RequestUrl(ItemPath(idx)),
                                           outcome |-> outcome, body |-> <<>>])
          /\ Advance(IF outcome = "neterr"
                     THEN AfterThrow(idx, Len(pathsToProcess))
                     ELSE AfterSkip(idx, Len(pathsToProcess)))
    /\ UNCHANGED <<loader, limit, listing, poemFolders, poems, poemPaths,
                   pathsToProcess, current, probes, poemsData,
                   checkLog, discovery>>
    /\ UNCHANGED pvars
    /\ UNCHANGED <<evars, uses, xvars>>

\* js/dynamic-poem-loader.js: the GET of item idx succeeds; the document is
\* parsed and the record pushed
FetchStatic ==
    /\ pc = "fetch"
    /\ loader = "static"
    /\ \E doc \in documents :
          /\ poemsData' = Append(poemsData,
                                 StaticEntry(pathsToProcess[idx], parsePoemFileContent(doc)))
          /\ fetchLog' = Append(fetchLog, [path |-> ItemPath(idx),
                                           url |-> RequestUrl(ItemPath(idx)),
                                           outcome |-> "ok", body |-> doc])
    /\ Advance(AfterPush(idx, Len(pathsToProcess)))
    /\ UNCHANGED <<loader, limit, listing, poemFolders, poems, poemPaths,
                   pathsToProcess, current, probes,
                   checkLog, discovery>>
    /\ UNCHANGED pvars
    /\ UNCHANGED <<evars, uses, xvars>>

\* probing loader: the GET of item idx succeeds; the document is parsed and
\* the probe loop starts
FetchFolder ==
    /\ pc = "fetch"
    /\ loader = "folders"
    /\ \E doc \in documents :
          /\ current' = parsePoemFileContent(doc)
          /\ fetchLog' = Append(fetchLog, [path |-> ItemPath(idx),
                                           url |-> RequestUrl(ItemPath(idx)),
                                           outcome |-> "ok", body |-> doc])
    /\ probes' = <<>>
    /\ pc' = "probe"
    /\ UNCHANGED <<loader, limit, listing, poemFolders, poems, poemPaths,
                   pathsToProcess, idx, poemsData,
                   checkLog, discovery>>
    /\ UNCHANGED pvars
    /\ UNCHANGED <<evars, uses, xvars>>

\* probing loader: the HEAD probe of the next extension settles; a hit
\* breaks the loop, and after the loop the record is pushed
Probe ==
    /\ pc = "probe"
    /\ \E outcome \in ProbeOutcomes(imageExtensions[Len(probes) + 1]) :
          LET ext == imageExtensions[Len(probes) + 1]
              imagePath == ImagePath(pathsToProcess[idx], ext)
          IN /\ probes' = Append(probes, [path |-> imagePath,
                                          url |-> RequestUrl(imagePath),
                                          outcome |-> outcome])
             /\ IF ProbeHit(outcome) \/ Len(probes) + 1 = Len(imageExtensions)
                THEN /\ poemsData' =
                           Append(poemsData,
                                  FolderEntry(pathsToProcess[idx], current,
                                              IF ProbeHit(outcome) THEN imagePath ELSE <<>>))
                     /\ current' = NotParsed
                     /\ Advance(AfterPush(idx, Len(pathsToProcess)))
                ELSE UNCHANGED <<poemsData, current, pc, idx>>
    /\ UNCHANGED <<loader, limit, listing, poemFolders, poems, poemPaths,
                   pathsToProcess, fetchLog,
                   checkLog, discovery>>
    /\ UNCHANGED pvars
    /\ UNCHANGED <<evars, uses, xvars>>

Next ==
    \/ DiscoverStatic
    \/ ListingFails
    \/ ListingAnswers
    \/ CheckPoem
    \/ FetchFails
    \/ FetchStatic
    \/ FetchFolder
    \/ Probe

Spec == Init /\ [][Next]_vars

\* the runs on the deployed site whose containers hold image files (every
\* outcome of every request is possible in them), each pending request
\* settling eventually and the function resuming after it
InitHosted ==
    /\ InitRun(Limits, StoreDocs, {"manasp21.github.io"})
    /\ imageFiles = {Png, Jpeg}

FairSpec == InitHosted /\ [][Next]_vars /\ WF_vars(Next)

\* every argument a caller may pass as limit: none, zero or a positive number
AllLimits == {NoLimit} \cup 0..MaxLimit

\* the runs on every argument, against a store that also serves the
\* document declaring id, content and image
InitAll == InitRun(AllLimits, AllDocs, RunHosts)

SpecAll == InitAll /\ [][Next]_vars

----------------------------------------------------------------------------
(* Parser run: one document, parsed by both parsers *)

InitParse ==
    /\ LoaderIdle
    /\ hostname = "localhost"
    /\ imageFiles = {}
    /\ documents = StoreDocs
    /\ uses = <<>>
    /\ OthersIdle
    /\ markdownContent \in Documents(FirstLines)
    /\ parsed = NotParsed
    /\ parsedQuoted = NotParsed
    /\ ppc = "input"

CallParser ==
    /\ ppc = "input"
    /\ parsed' = parsePoemFileContent(markdownContent)
    /\ parsedQuoted' = parsePoemFileContentQuoted(markdownContent)
    /\ ppc' = "parsed"
    /\ UNCHANGED markdownContent
    /\ UNCHANGED lvars
    /\ UNCHANGED <<evars, uses, xvars>>

NextParse == CallParser

SpecParse == InitParse /\ [][NextParse]_vars

----------------------------------------------------------------------------
(* Page run: the pages build the URL of a record's image *)

\* a base path that knows one loopback name only
basePathLocalhostOnly(host) ==
    IF host = "localhost" THEN <<>> ELSE <<"/", "p", "o", "e", "t", "r", "y", "_", "w", "e", "b", "s", "i", "t", "e">>

\* const basePath = window.location.hostname === 'localhost' ||
\*     window.location.hostname === '127.0.0.1' ? '' : '/poetry_website'
basePath(host) ==
    IF host = "localhost" \/ host = "127.0.0.1" THEN <<>> ELSE <<"/", "p", "o", "e", "t", "r", "y", "_", "w", "e", "b", "s", "i", "t", "e">>

\* poem.image && poem.image.trim() !== ''
HasImage(image) == image # <<>> /\ Trim(image) # <<>>

placeholder == <<"/", "a", "s", "s", "e", "t", "s", "/", "i", "m", "a", "g", "e", "s", "/", "p", "l", "a", "c", "e", "h", "o", "l", "d", "e", "r", ".", "p", "n", "g">>

\* getPoemImagePath of js/archive.js
ArchiveImagePath(host, image) ==
    IF HasImage(image) THEN basePath(host) \o <<Slash>> \o image
    ELSE basePath(host) \o placeholder

\* getPoemImagePath of js/poem-page.js
PoemPageImagePath(host, image) ==
    IF HasImage(image) THEN basePath(host) \o <<"/", "a", "s", "s", "e", "t", "s", "/", "i", "m", "a", "g", "e", "s", "/", "p", "o", "e", "m", "s", "/">> \o image
    ELSE basePath(host) \o placeholder

\* the image property of the records the pages are handed
PoemImages == {<<>>, <<" ">>, <<"a", ".", "p", "n", "g">>, <<"P", "o", "e", "t", "r", "y", "/", "7", "/", "i", "m", "a", "g", "e", ".", "p", "n", "g">>}

InitPage ==
    /\ LoaderIdle
    /\ ParserIdle
    /\ hostname \in Hostnames
    /\ imageFiles = {}
    /\ documents = StoreDocs
    /\ uses = <<>>
    /\ OthersIdle

\* js/archive.js builds the src of a card's image
ArchiveImage ==
    /\ pc = "idle" /\ ppc = "idle"
    /\ Len(uses) < MaxUses
    /\ \E image \in PoemImages :
          uses' = Append(uses, [page |-> "archive", hostname |-> hostname,
                                image |-> image, basePath |-> basePath(hostname),
                                src |-> ArchiveImagePath(hostname, image)])
    /\ UNCHANGED <<pvars, lvars, evars, xvars>>

\* js/poem-page.js builds the src of the poem's image
PoemPageImage ==
    /\ pc = "idle" /\ ppc = "idle"
    /\ Len(uses) < MaxUses
    /\ \E image \in PoemImages :
          uses' = Append(uses, [page |-> "poem", hostname |-> hostname,
                                image |-> image, basePath |-> basePath(hostname),
                                src |-> PoemPageImagePath(hostname, image)])
    /\ UNCHANGED <<pvars, lvars, evars, xvars>>

\* the site is opened from another host
Relocate ==
    /\ pc = "idle" /\ ppc = "idle"
    /\ \E host \in Hostnames \ {hostname} : hostname' = host
    /\ UNCHANGED <<pvars, lvars, imageFiles, documents, uses, xvars>>

NextPage ==
    \/ ArchiveImage
    \/ PoemPageImage
    \/ Relocate

SpecPage == InitPage /\ [][NextPage]_vars

----------------------------------------------------------------------------
(* What a document declares, read off its text line by line *)

DocLines(s) == Split(s, "\n")

\* number of the closing line: the first line after line 1 that is exactly
\* ---, provided line 1 is exactly ---; 0 when the document has no block
ClosingLine(s) ==
    LET ls == DocLines(s)
        closers == {j \in 2..Len(ls) : ls[j] = Dashes}
    IN IF ls[1] = Dashes /\ closers # {} THEN Min(closers) ELSE 0

HasBlock(s) == ClosingLine(s) > 0

HasColon(line) == Positions(line, ":") # {}
FirstColon(line) == Min(Positions(line, ":"))
KeyOf(line) == Trim(SubSeq(line, 1, FirstColon(line) - 1))
ValueOf(line) == Trim(SubSeq(line, FirstColon(line) + 1, Len(line)))

\* the lines between the opening and the closing line
DeclaredLines(s) == SubSeq(DocLines(s), 2, ClosingLine(s) - 1)

ContainsDashes(line) == \E i \in 1..Len(line) : HasAt(line, i, Dashes)

\* a "key: value" line: a colon after a non-empty key that is free of ---
IsKeyValueLine(line) ==
    /\ HasColon(line)
    /\ KeyOf(line) # <<>>
    /\ ~ContainsDashes(KeyOf(line))

WellFormed(s) ==
    /\ HasBlock(s)
    /\ \A i \in 1..Len(DeclaredLines(s)) : IsKeyValueLine(DeclaredLines(s)[i])

DeclaredKeys(s) == {KeyOf(DeclaredLines(s)[i]) : i \in 1..Len(DeclaredLines(s))}

TextAfterClosing(s) ==
    Join(SubSeq(DocLines(s), ClosingLine(s) + 1, Len(DocLines(s))), "\n")

\* the line is the last of lines to declare its key
LastForKey(lines, i) ==
    \A j \in (i + 1)..Len(lines) : HasColon(lines[j]) => KeyOf(lines[j]) # KeyOf(lines[i])

\* the value is written between a pair of matching quotes
InMatchingQuotes(value) ==
    /\ Len(value) >= 2
    /\ value[1] \in {"\"", "'"}
    /\ value[Len(value)] = value[1]

----------------------------------------------------------------------------
(* Claims about the parser *)

\* C6: for every well-formed document (a --- line, key: value lines, a
\* second --- line) the parser's metadata holds exactly the declared keys
\* and its body is the trimmed text after the closing --- line.
C6_WellFormedParsed ==
    (ppc = "parsed" /\ WellFormed(markdownContent)) =>
        /\ DOMAIN parsed.frontMatter = DeclaredKeys(markdownContent)
        /\ parsed.poemText = Trim(TextAfterClosing(markdownContent))

\* C7: a value written between matching quotes is stored by the parser the
\* pages load without the surrounding quote characters.
C7_QuotesStripped ==
    (ppc = "parsed" /\ WellFormed(markdownContent)) =>
        LET lines == DeclaredLines(markdownContent)
        IN \A i \in 1..Len(lines) :
              (/\ ~ContainsDashes(lines[i])
               /\ InMatchingQuotes(ValueOf(lines[i]))
               /\ LastForKey(lines, i)
               /\ KeyOf(lines[i]) \in DOMAIN parsed.frontMatter)
              => parsed.frontMatter[KeyOf(lines[i])] = SliceInner(ValueOf(lines[i]))

\* C8: a document without a block (no first line --- followed later by a
\* second line ---) parses to empty metadata and the whole text trimmed.
C8_NoBlockWholeBody ==
    (ppc = "parsed" /\ ~HasBlock(markdownContent)) =>
        /\ parsed.frontMatter = <<>>
        /\ parsed.poemText = Trim(markdownContent)

\* C20: the parser is total, and a document whose block is malformed (a
\* first line --- that no later line --- closes) parses to empty metadata
\* with the whole trimmed text as body, in both parsers.
C20_MalformedDegrades ==
    (/\ ppc = "parsed"
     /\ DocLines(markdownContent)[1] = Dashes
     /\ ~HasBlock(markdownContent))
    => /\ parsed = [frontMatter |-> <<>>, poemText |-> Trim(markdownContent)]
       /\ parsedQuoted = [frontMatter |-> <<>>, poemText |-> Trim(markdownContent)]

\* the lines of the block the parser found (none when it found no block)
BlockLines ==
    LET match == frontMatterRegex(markdownContent)
    IN IF match.found THEN Split(match.group, "\n") ELSE <<>>

\* C9: every line of the metadata block is split on its first colon only:
\* the key is the trimmed text before it, the value the trimmed remainder
\* with its later colons (the quote-aware parser may strip one pair of
\* quotes from it); a line without a colon adds no key.
C9_SplitOnFirstColon ==
    ppc = "parsed" =>
        LET lines == BlockLines
            colonLines == {i \in 1..Len(lines) : HasColon(lines[i])}
        IN /\ DOMAIN parsed.frontMatter = {KeyOf(lines[i]) : i \in colonLines}
           /\ DOMAIN parsedQuoted.frontMatter = {KeyOf(lines[i]) : i \in colonLines}
           /\ \A i \in colonLines : LastForKey(lines, i) =>
                 /\ parsed.frontMatter[KeyOf(lines[i])] = ValueOf(lines[i])
                 /\ parsedQuoted.frontMatter[KeyOf(lines[i])] \in
                        {ValueOf(lines[i]), SliceInner(ValueOf(lines[i]))}

\* C9 witness: a parsed block with a line of two colons whose value kept
\* the second one, and a line without a colon.
C9_Witness ==
    /\ ppc = "parsed"
    /\ \E i \in 1..Len(BlockLines) :
          /\ Cardinality(Positions(BlockLines[i], ":")) >= 2
          /\ Positions(parsed.frontMatter[KeyOf(BlockLines[i])], ":") # {}
    /\ \E i \in 1..Len(BlockLines) : ~HasColon(BlockLines[i]) /\ BlockLines[i] # <<>>

----------------------------------------------------------------------------
(* Claims about discovery, fetching and probing *)

\* the filePath property of each record, in order
RecordPaths == [i \in 1..Len(poemsData) |-> poemsData[i][KfilePath]]

IsOk(entry) == entry.outcome = "ok"

\* the paths of the document GETs that answered with success, in order
OkPaths ==
    LET oks == SelectSeq(fetchLog, IsOk)
    IN [i \in 1..Len(oks) |-> oks[i].path]

\* C1: there is exactly one record per document GET that succeeded and none
\* per GET that answered non-2xx or failed; a failing item does not stop
\* the later ones, and the records keep the order of their locators.
C1_SkipAndContinue ==
    /\ \A i \in 1..Len(fetchLog) : fetchLog[i].path = ItemPath(i)
    /\ pc = "done" =>
          /\ Len(fetchLog) = Len(pathsToProcess)
          /\ RecordPaths = OkPaths
    /\ pc = "fetch" => RecordPaths = OkPaths

\* C1 witness: a finished run in which a non-2xx answer and a transport
\* error were both followed by a later item that produced a record.
C1_Witness ==
    /\ pc = "done"
    /\ Len(fetchLog) = 3
    /\ fetchLog[1].outcome = "status"
    /\ fetchLog[2].outcome = "neterr"
    /\ fetchLog[3].outcome = "ok"
    /\ Len(poemsData) = 1
    /\ poemsData[1][KfilePath] = ItemPath(3)

\* C2: whenever the listing request of discoverAllPoemsFromFolders fails
\* (transport error, non-success status, body that is no JSON array), the
\* result is exactly the hardcoded fallback list in list order.
C2_FallbackOnListingFailure ==
    (loader = "folders" /\ listing.outcome \in ListingFailures) =>
        poemPaths = getFallbackPoemPathsForFolders

\* discovery handed the hardcoded list to the loop
UsesFallbackList ==
    /\ pc \notin {"discover", "check"}
    /\ Len(poemPaths) = NumStatic
    /\ \A i \in 1..NumStatic :
          (IF loader = "static" THEN poemPaths[i] ELSE poemPaths[i].path) = staticPaths[i]

\* C3: every invocation first issues the remote listing request, and the
\* hardcoded list is used only after that request failed in the same
\* invocation.
C3_RemoteListingFirst ==
    /\ pc # "discover" => listing.outcome # "none"
    /\ UsesFallbackList => listing.outcome \in ListingFailures

\* C4: within one run over pairwise distinct locators no two records have
\* the same id.
C4_UniqueIds ==
    (/\ pc = "done"
     /\ \A i, j \in 1..Len(pathsToProcess) : i # j => ItemPath(i) # ItemPath(j))
    => \A i, j \in 1..Len(poemsData) : i # j => poemsData[i][Kid] # poemsData[j][Kid]

\* the path of the i-th locator discovery returned
DiscoveredPath(i) == IF loader = "static" THEN poemPaths[i] ELSE poemPaths[i].path

AllFetchedOk == \A i \in 1..Len(fetchLog) : fetchLog[i].outcome = "ok"

\* C5: with a positive limit n and every processed document fetched with
\* success, the run returns min(n, |L|) records, the i-th built from the
\* i-th discovered locator; without a limit every locator is processed.
C5_LimitPrefix ==
    (pc = "done" /\ AllFetchedOk /\ limit # 0) =>
        /\ Len(poemsData) =
              (IF limit # NoLimit /\ limit < Len(poemPaths) THEN limit ELSE Len(poemPaths))
        /\ \A i \in 1..Len(poemsData) : poemsData[i][KfilePath] = DiscoveredPath(i)
        /\ limit = NoLimit => Len(fetchLog) = Len(poemPaths)

\* C5 witness: a finished run with limit 2 over more than two discovered
\* locators that returned the records of the first two.
C5_Witness ==
    /\ pc = "done"
    /\ limit = 2
    /\ Len(poemPaths) > 2
    /\ Len(poemsData) = 2
    /\ poemsData[1][KfilePath] = DiscoveredPath(1)
    /\ poemsData[2][KfilePath] = DiscoveredPath(2)

\* the documents the successful GETs served, in order
OkBodies ==
    LET oks == SelectSeq(fetchLog, IsOk)
    IN [i \in 1..Len(oks) |-> oks[i].body]

\* the image file of a container, by extension
ImageFileOf(filePath, ext) ==
    SubSeq(filePath, 1, Len(filePath) - 8) \o <<"/", "i", "m", "a", "g", "e", ".">> \o ext

\* C11: in the loader shipped under js/ a record's image is the empty
\* string whenever its container holds no image file, and a non-empty
\* image names a file that exists in the container.
C11_ImageExists ==
    loader = "static" =>
        \A i \in 1..Len(poemsData) :
            LET image == poemsData[i][Kimage]
            IN /\ imageFiles = {} => image = <<>>
               /\ image # <<>> =>
                     \E ext \in imageFiles :
                        image = ImageFileOf(poemsData[i][KfilePath], ext)

\* the five defaulted fields and their defaults
FieldDefaults ==
    (<<"t", "i", "t", "l", "e">> :> <<"U", "n", "t", "i", "t", "l", "e", "d">>)
    @@ (<<"a", "u", "t", "h", "o", "r">> :> <<"U", "n", "k", "n", "o", "w", "n", " ", "A", "u", "t", "h", "o", "r">>)
    @@ (<<"l", "a", "n", "g", "u", "a", "g", "e">> :> <<"u", "n", "k", "n", "o", "w", "n">>)
    @@ (<<"f", "o", "r", "m">> :> <<"u", "n", "k", "n", "o", "w", "n">>)
    @@ (<<"l", "e", "n", "g", "t", "h">> :> <<"u", "n", "k", "n", "o", "w", "n">>)

\* the metadata the parser finds in each document of the store, and
\* whether the document has a block
MetadataOf == [doc \in StoreDocs |-> parsePoemFileContent(doc).frontMatter]
BlockIn == [doc \in StoreDocs |-> HasBlock(doc)]

\* C12: in every record each of title, author, language, form and length
\* is the metadata value of that key when the key is present with a
\* non-empty value and its default otherwise; a document without a block
\* yields the five defaults, and none of the fields is empty or missing.
C12_Defaults ==
    LET bodies == OkBodies
    IN \A i \in 1..Len(poemsData) :
          LET meta == MetadataOf[bodies[i]]
              record == poemsData[i]
              block == BlockIn[bodies[i]]
          IN \A k \in DOMAIN FieldDefaults :
                /\ k \in DOMAIN record
                /\ record[k] # <<>>
                /\ record[k] =
                      (IF k \in DOMAIN meta /\ meta[k] # <<>>
                       THEN meta[k] ELSE FieldDefaults[k])
                /\ ~block => record[k] = FieldDefaults[k]

\* C12 witness: a run whose first record comes from a document that
\* declares title and author and an empty form (the declared values are
\* kept, form and the undeclared fields are defaulted), and whose second
\* record comes from a document without a block (five defaults).
C12_Witness ==
    /\ Len(poemsData) >= 2
    /\ OkBodies[1] = DocKogarashi
    /\ poemsData[1][Kauthor] = <<"M">>
    /\ poemsData[1][Ktitle] # FieldDefaults[Ktitle]
    /\ poemsData[1][Kform] = FieldDefaults[Kform]
    /\ poemsData[1][Klanguage] = FieldDefaults[Klanguage]
    /\ OkBodies[2] = DocPlain
    /\ \A k \in DOMAIN FieldDefaults : poemsData[2][k] = FieldDefaults[k]

\* the URL a request for path must go to on host
ResolvedUrl(host, path) ==
    (IF host \in {"localhost", "127.0.0.1"} THEN <<>> ELSE <<"/", "p", "o", "e", "t", "r", "y", "_", "w", "e", "b", "s", "i", "t", "e">>)
    \o <<"/">> \o path

\* C15: every document GET and every image probe goes to the resolved
\* base path followed by the item path: no /poetry_website prefix on
\* localhost and 127.0.0.1, that prefix on every other host.
C15_RequestsUseBasePath ==
    /\ \A i \in 1..Len(fetchLog) :
          fetchLog[i].url = ResolvedUrl(hostname, fetchLog[i].path)
    /\ \A i \in 1..Len(probes) :
          probes[i].url = ResolvedUrl(hostname, probes[i].path)

\* C16: the base path computed when an image URL is built is empty
\* exactly when the hostname of that moment is localhost or 127.0.0.1 and
\* /poetry_website for every other hostname, at every use, whatever the
\* hostname was at earlier uses.
C16_BasePathPerUse ==
    \A i \in 1..Len(uses) :
        /\ uses[i].basePath = <<>> <=> uses[i].hostname \in {"localhost", "127.0.0.1"}
        /\ uses[i].hostname \notin {"localhost", "127.0.0.1"} =>
              uses[i].basePath = <<"/", "p", "o", "e", "t", "r", "y", "_", "w", "e", "b", "s", "i", "t", "e">>
        /\ HasAt(uses[i].src, 1, uses[i].basePath \o <<"/">>)

\* C16 witness: an image URL built on 127.0.0.1 with the empty base path,
\* followed by one built on the GitHub Pages host with /poetry_website.
C16_Witness ==
    /\ Len(uses) = 2
    /\ uses[1].hostname = "127.0.0.1"
    /\ uses[1].basePath = <<>>
    /\ uses[2].hostname = "manasp21.github.io"
    /\ uses[2].basePath # <<>>
    /\ HasAt(uses[2].src, 1, <<"/", "p", "o", "e", "t", "r", "y", "_", "w", "e", "b", "s", "i", "t", "e", "/">>)

\* remote discovery succeeded and returned
RemoteDiscoveryDone ==
    /\ loader = "folders"
    /\ listing.outcome = "ok"
    /\ pc \notin {"discover", "check"}

\* the container name in a path Poetry/<name>/poem.md
ContainerName(path) == Split(path, "/")[2]

\* C17: when remote discovery succeeds the locators come in ascending
\* numeric order of their container names, whatever the order of the
\* listing (7 before 10, not after it as in text order).
C17_NumericOrder ==
    RemoteDiscoveryDone =>
        \A i, j \in 1..Len(poemPaths) :
            i < j => parseInt(ContainerName(poemPaths[i].path))
                        < parseInt(ContainerName(poemPaths[j].path))

\* C17 witness: the listing returned 10 before 7 and discovery returned
\* the locator of 7 before that of 10.
C17_Witness ==
    /\ RemoteDiscoveryDone
    /\ Len(listing.contents) = 2
    /\ listing.contents[1].name = <<"1", "0">>
    /\ listing.contents[2].name = <<"7">>
    /\ Len(poemPaths) = 2
    /\ ContainerName(poemPaths[1].path) = <<"7">>
    /\ ContainerName(poemPaths[2].path) = <<"1", "0">>

\* the name consists of digits only
AllDigits(name) ==
    /\ name # <<>>
    /\ \A i \in 1..Len(name) :
          name[i] \in {"0", "1", "2", "3", "4", "5", "6", "7", "8", "9"}

\* the names of the listed directories whose name consists of digits
NumberedDirectories ==
    {listing.contents[i].name : i \in {j \in 1..Len(listing.contents) :
        /\ listing.contents[j].type = "dir"
        /\ AllDigits(listing.contents[j].name)}}

\* the container names of the locators discovery returned
LocatedContainers == {ContainerName(poemPaths[i].path) : i \in 1..Len(poemPaths)}

\* C18 as stated: after a successful listing call discovery returns one
\* locator for every listed directory whose name consists of digits and
\* none for any other entry; without such an entry the result is empty.
C18_EveryNumberedDirectory ==
    RemoteDiscoveryDone =>
        /\ LocatedContainers = NumberedDirectories
        /\ Len(poemPaths) = Cardinality(NumberedDirectories)

\* the names of the directories whose poem.md check answered with success
FoundContainers ==
    {checkLog[i].name : i \in {j \in 1..Len(checkLog) : checkLog[j].found}}

\* C18 amended: after a successful listing call every listed directory
\* whose name consists of digits, and no other entry, is checked for
\* poem.md; discovery returns one locator for every such directory whose
\* check answered with success and none for any other entry; without such
\* a directory the result is empty, not the fallback list.
C18_NumberedDirectoriesWithPoem ==
    RemoteDiscoveryDone =>
        /\ {checkLog[i].name : i \in 1..Len(checkLog)} = NumberedDirectories
        /\ Len(checkLog) = Cardinality(NumberedDirectories)
        /\ LocatedContainers = FoundContainers
        /\ Len(poemPaths) = Cardinality(FoundContainers)
        /\ NumberedDirectories = {} => poemPaths = <<>>

\* C18 witness: a listing of two numbered directories of which one holds
\* poem.md: discovery returned the locator of that one only.
C18_Witness ==
    /\ RemoteDiscoveryDone
    /\ Cardinality(NumberedDirectories) = 2
    /\ Cardinality(FoundContainers) = 1
    /\ Len(poemPaths) = 1
    /\ ContainerName(poemPaths[1].path) \in FoundContainers

\* s ends with suffix
EndsWith(s, suffix) == HasAt(s, Len(s) - Len(suffix) + 1, suffix)

\* C19: a run over the single discovered container 7, whose poem.md
\* declares title: "Kogarashi" and whose image.png exists (every request
\* for an existing file answering with success), returns exactly one
\* record, with id 7, title Kogarashi and an image path ending in
\* 7/image.png.
C19_KogarashiRecord ==
    (/\ pc = "done"
     /\ Len(poemPaths) = 1
     /\ ContainerName(DiscoveredPath(1)) = <<"7">>
     /\ Len(fetchLog) = 1
     /\ fetchLog[1].outcome = "ok"
     /\ fetchLog[1].body = DocKogarashi
     /\ <<"p", "n", "g">> \in imageFiles
     /\ loader = "folders" => probes[1].outcome = "ok")
    => /\ Len(poemsData) = 1
       /\ poemsData[1][Kid] = <<"7">>
       /\ poemsData[1][Ktitle] = <<"K", "o", "g", "a", "r", "a", "s", "h", "i">>
       /\ EndsWith(poemsData[1][Kimage], <<"7", "/", "i", "m", "a", "g", "e", ".", "p", "n", "g">>)

\* C13: provided every request it issues settles, every call of
\* fetchAllPoemsEnhanced eventually resolves to its sequence of records
\* and never rejects, whatever the outcomes of the listing request, the
\* checks, the document GETs and the probes.
C13_EventuallyResolves == [](pc # "rejected") /\ <>(pc = "done")

\* C13 witness: a call that resolved although the listing request failed
\* in transport, the first document GET threw, the second answered
\* non-2xx and every probe of the third item threw.
C13_Witness ==
    /\ pc = "done"
    /\ listing.outcome = "neterr"
    /\ Len(fetchLog) = 3
    /\ fetchLog[1].outcome = "neterr"
    /\ fetchLog[2].outcome = "status"
    /\ fetchLog[3].outcome = "ok"
    /\ Len(probes) = 4
    /\ \A i \in 1..4 : probes[i].outcome = "neterr"
    /\ Len(poemsData) = 1

\* a path of the form Poetry/<container>/poem.md
IsLocatorPath(path) ==
    /\ HasAt(path, 1, <<"P", "o", "e", "t", "r", "y", "/">>)
    /\ HasAt(path, Len(path) - 7, <<"/", "p", "o", "e", "m", ".", "m", "d">>)
    /\ Len(path) > 15

\* C14: discovery never rejects: whatever the outcome of the listing
\* request and of each per-container check, the call resolves to a
\* sequence of locators.
C14_DiscoveryResolves ==
    /\ discovery # "rejected"
    /\ pc \notin {"discover", "check"} =>
          /\ discovery = "resolved"
          /\ \A i \in 1..Len(poemPaths) : IsLocatorPath(DiscoveredPath(i))

\* C14 witness: a discovery that resolved to the hardcoded list after the
\* listing request answered with a body that is no JSON.
C14_Witness ==
    /\ discovery = "resolved"
    /\ listing.outcome = "notjson"
    /\ Len(poemPaths) = NumStatic

\* the container of a document path: the path without /poem.md
ContainerOf(filePath) == SubSeq(filePath, 1, Len(filePath) - Len(PoemMd) - 1)

\* the container the probes of the latest probed item belong to
ProbedContainer ==
    IF pc = "probe" THEN ContainerOf(ItemPath(idx))
    ELSE ContainerOf(poemsData[Len(poemsData)][KfilePath])

PreferenceOrder == <<<<"p", "n", "g">>, <<"j", "p", "g">>, <<"j", "p", "e", "g">>,
                     <<"w", "e", "b", "p">>>>

\* C10: the probes of an item go to <container>/image.<ext> in the order
\* png, jpg, jpeg, webp, one after the other, and none follows a success;
\* the record's image is the path of the probe that succeeded, and is empty
\* when all four were answered non-2xx or failed in transport.
C10_ProbeOrder ==
    probes # <<>> =>
        /\ Len(probes) <= Len(PreferenceOrder)
        /\ \A i \in 1..Len(probes) :
              /\ probes[i].path =
                    ProbedContainer \o <<"/">> \o <<"i", "m", "a", "g", "e", ".">>
                    \o PreferenceOrder[i]
              /\ i < Len(probes) => probes[i].outcome # "ok"
        /\ pc = "probe" =>
              /\ probes[Len(probes)].outcome # "ok"
              /\ Len(probes) < Len(PreferenceOrder)
        /\ pc # "probe" =>
              LET last == probes[Len(probes)]
                  image == poemsData[Len(poemsData)][Kimage]
              IN IF last.outcome = "ok"
                 THEN image = last.path
                 ELSE image = <<>> /\ Len(probes) = Len(PreferenceOrder)

\* C10 witness: an item whose png probe failed in transport, whose jpg
\* probe answered non-2xx and whose jpeg probe succeeded: the record's
\* image is the jpeg path and webp was never probed.
C10_Witness ==
    /\ pc # "probe"
    /\ Len(probes) = 3
    /\ probes[1].outcome = "neterr"
    /\ probes[2].outcome = "status"
    /\ probes[3].outcome = "ok"
    /\ poemsData[Len(poemsData)][Kimage] = probes[3].path

----------------------------------------------------------------------------
(* Requests of one run *)

\* the document GETs issued so far are those of items 1..Len(fetchLog) of
\* pathsToProcess, one each, and no path was requested twice
FetchedOnce ==
    /\ Len(fetchLog) <= Len(pathsToProcess)
    /\ \A i \in 1..Len(fetchLog) : fetchLog[i].path = ItemPath(i)
    /\ \A i, j \in 1..Len(fetchLog) : i # j => fetchLog[i].path # fetchLog[j].path
    /\ pc = "done" => Len(fetchLog) = Len(pathsToProcess)

\* C21: within one run discovery is invoked exactly once (once the listing
\* was requested or discovery settled, neither happens again and the
\* discovered list stays as returned), every step issues at most one
\* document GET and keeps the earlier ones, and each processed locator's
\* document is requested exactly once: a failed fetch is never retried and
\* no locator is fetched twice.
C21_RequestedOnce ==
    [][/\ listing.outcome # "none" => listing' = listing
       /\ discovery # "pending" =>
             /\ discovery' = discovery
             /\ poemPaths' = poemPaths
             /\ pathsToProcess' = pathsToProcess
             /\ checkLog' = checkLog
       /\ \/ fetchLog' = fetchLog
          \/ /\ Len(fetchLog') = Len(fetchLog) + 1
             /\ SubSeq(fetchLog', 1, Len(fetchLog)) = fetchLog
       /\ FetchedOnce']_vars

\* C21 witness: a finished run over two discovered locators whose GETs both
\* failed, each requested once, after a listing that answered.
C21_Witness ==
    /\ pc = "done"
    /\ loader = "folders"
    /\ listing.outcome = "ok"
    /\ discovery = "resolved"
    /\ Len(pathsToProcess) = 2
    /\ Len(fetchLog) = 2
    /\ fetchLog[1].outcome = "neterr"
    /\ fetchLog[2].outcome = "status"
    /\ fetchLog[1].path # fetchLog[2].path

----------------------------------------------------------------------------
(* Identity of a record, and the arguments of a run *)

\* the item of pathsToProcess a path belongs to
LocatorOf(path) ==
    pathsToProcess[CHOOSE j \in 1..Len(pathsToProcess) : ItemPath(j) = path]

\* the id the loader gives the record of an item whose document declares
\* nothing
IdWithoutMetadata(item) ==
    IF loader = "static" THEN StaticEntry(item, NotParsed)[Kid]
    ELSE FolderEntry(item, NotParsed, <<>>)[Kid]

\* the image paths the loader itself may compute for an item
ComputedImages(item) ==
    IF loader = "static" THEN {getImagePathForPoem(item)}
    ELSE {<<>>} \cup {ImagePath(item, imageExtensions[k]) : k \in 1..Len(imageExtensions)}

\* the text after the block of each document of the store
TextOf == [doc \in AllDocs |-> parsePoemFileContent(doc).poemText]

\* C23: a record's id depends on its locator only: whatever the document's
\* metadata declares (a key named id included), the id is the one the
\* locator alone gives; and the computed fields content and image are the
\* document's text and the image path the loader computed, never the value
\* of a metadata key of the same name.
C23_IdFromLocatorOnly ==
    LET bodies == OkBodies
    IN \A i \in 1..Len(poemsData) :
          LET record == poemsData[i]
              item == LocatorOf(record[KfilePath])
          IN /\ record[Kid] = IdWithoutMetadata(item)
             /\ record[Kcontent] = TextOf[bodies[i]]
             /\ record[Kimage] \in ComputedImages(item)

\* C24: for every non-negative limit, 0 included, the run processes only
\* the first limit locators of the discovered sequence and returns at most
\* limit records; a run with limit 0 returns no record and issues no
\* document request.
C24_NonNegativeLimit ==
    (limit >= 0 /\ discovery # "pending") =>
        /\ Len(pathsToProcess) = (IF limit < Len(poemPaths) THEN limit ELSE Len(poemPaths))
        /\ \A i \in 1..Len(pathsToProcess) : pathsToProcess[i] = poemPaths[i]
        /\ Len(poemsData) <= limit
        /\ limit = 0 => fetchLog = <<>> /\ poemsData = <<>>

----------------------------------------------------------------------------
(* Quote stripping of the quote-aware parser *)

\* C25: in the quote-aware parser a trimmed value loses exactly one leading
\* and one trailing character if and only if it begins and ends with the
\* same quote character and the two form a pair (two distinct characters);
\* every other value, a single quote character included, is stored
\* unchanged.
C25_PairOfQuotesOnly ==
    ppc = "parsed" =>
        LET lines == BlockLines
        IN \A i \in 1..Len(lines) :
              (HasColon(lines[i]) /\ LastForKey(lines, i)) =>
                  LET value == ValueOf(lines[i])
                  IN parsedQuoted.frontMatter[KeyOf(lines[i])] =
                        (IF InMatchingQuotes(value) THEN SliceInner(value) ELSE value)

----------------------------------------------------------------------------
(* The poem page: a card's link and the lookup of the poem it names *)

PoemHtmlId == <<"p", "o", "e", "m", ".", "h", "t", "m", "l", "?", "i", "d", "=">>

\* link.href = `poem.html?id=${poem.id}`
CardHref(poem) == PoemHtmlId \o poem[Kid]

\* new URLSearchParams(window.location.search).get('id') on the page the
\* link opens: the text after ?id= up to the next & or #, a + read as a
\* space (the ids of the model hold no percent escape)
GetIdParam(href) ==
    LET query == SubSeq(href, Len(PoemHtmlId) + 1, Len(href))
        stops == Positions(query, "&") \cup Positions(query, "#")
        raw == IF stops = {} THEN query ELSE SubSeq(query, 1, Min(stops) - 1)
    IN [i \in 1..Len(raw) |-> IF raw[i] = "+" THEN " " ELSE raw[i]]

\* allPoems.find(p => p.id === poemId): the index of the first record with
\* that id, 0 for undefined
find(allPoems, poemId) ==
    LET hits == {i \in 1..Len(allPoems) : allPoems[i][Kid] = poemId}
    IN IF hits = {} THEN 0 ELSE Min(hits)

UntitledPoem == <<"U", "n", "t", "i", "t", "l", "e", "d", " ", "P", "o", "e", "m">>
PoemNotFound ==
    [title |-> <<"P", "o", "e", "m", " ", "N", "o", "t", " ", "F", "o", "u", "n", "d">>,
     content |-> <<>>]

\* what loadPoem of js/poem-page.js displays for the id of the URL
loadPoem(allPoems, poemId) ==
    IF poemId = <<>> THEN PoemNotFound
    ELSE LET found == find(allPoems, poemId)
         IN IF found = 0 THEN PoemNotFound
            ELSE [title |-> IF allPoems[found][Ktitle] # <<>>
                            THEN allPoems[found][Ktitle] ELSE UntitledPoem,
                  content |-> allPoems[found][Kcontent]]

\* an id no record of the model carries
AbsentId == <<"n", "o", "n", "e">>

\* C27: for every record r of a finished run, the poem page opened through
\* r's card (id = r.id) displays r's own title and content, the links of
\* two different cards never open the same poem, and an id that matches no
\* record displays Poem Not Found.
C27_CardOpensOwnPoem ==
    pc = "done" =>
        /\ \A i \in 1..Len(poemsData) :
              LET shown == loadPoem(poemsData, GetIdParam(CardHref(poemsData[i])))
              IN /\ shown.title = poemsData[i][Ktitle]
                 /\ shown.content = poemsData[i][Kcontent]
        /\ \A i, j \in 1..Len(poemsData) :
              i # j => find(poemsData, GetIdParam(CardHref(poemsData[i])))
                          # find(poemsData, GetIdParam(CardHref(poemsData[j])))
        /\ loadPoem(poemsData, AbsentId) = PoemNotFound

----------------------------------------------------------------------------
(* Card run: the homepage, the archive and the poem page build the image
   URL of the same records *)

TitleRun == <<"R", "u", "n">>
TitleKogarashi == <<"K", "o", "g", "a", "r", "a", "s", "h", "i">>

\* titleImageMap of js/main.js: of its 35 titles the model keeps 'Run'
titleImageMap == (TitleRun :> <<"r", "u", "n", ".", "p", "n", "g">>)

\* getPoemImagePath of js/main.js: the image is looked up by title, the
\* record's image property is not read and no base path is prepended
HomeImagePath(poem) ==
    IF poem.title \in DOMAIN titleImageMap
    THEN <<"a", "s", "s", "e", "t", "s", "/", "i", "m", "a", "g", "e", "s", "/", "p", "o", "e", "m", "s", "/">> \o titleImageMap[poem.title]
    ELSE <<"a", "s", "s", "e", "t", "s", "/", "i", "m", "a", "g", "e", "s", "/", "p", "l", "a", "c", "e", "h", "o", "l", "d", "e", "r", ".", "p", "n", "g">>

\* the URL the browser requests for an img.src: a src that starts with /
\* is taken from the root of the host, any other one from the directory of
\* the page, which is the root on a loopback host and /poetry_website/ on
\* the deployed site
ResolveSrc(host, src) ==
    IF HasAt(src, 1, <<Slash>>) THEN src ELSE basePath(host) \o <<Slash>> \o src

\* the records the pages are handed
CardPoems == [title : {TitleRun, TitleKogarashi}, image : PoemImages]

\* js/main.js builds the src of a homepage card's image
HomeCardImage ==
    /\ pc = "idle" /\ ppc = "idle"
    /\ Len(uses) < MaxUses
    /\ \E poem \in CardPoems :
          uses' = Append(uses, [page |-> "home", hostname |-> hostname,
                                image |-> poem.image, title |-> poem.title,
                                src |-> HomeImagePath(poem)])
    /\ UNCHANGED <<pvars, lvars, evars, xvars>>

NextCards ==
    \/ HomeCardImage
    \/ ArchiveImage
    \/ PoemPageImage
    \/ Relocate

SpecCards == InitPage /\ [][NextCards]_vars

\* C30: for every record with a non-empty image path p, the homepage card,
\* the archive card and the poem page all request the same URL, the base
\* path of the host followed by / and p; for a record with an empty image
\* all three request the placeholder under the same base path.
C30_SameImageUrl ==
    \A i \in 1..Len(uses) :
        LET base == IF uses[i].hostname \in {"localhost", "127.0.0.1"} THEN <<>>
                    ELSE <<"/", "p", "o", "e", "t", "r", "y", "_", "w", "e", "b", "s", "i", "t", "e">>
            requested == ResolveSrc(uses[i].hostname, uses[i].src)
        IN /\ Trim(uses[i].image) # <<>> =>
                 requested = base \o <<"/">> \o uses[i].image
           /\ uses[i].image = <<>> =>
                 requested = base \o <<"/", "a", "s", "s", "e", "t", "s", "/", "i", "m", "a", "g", "e", "s", "/", "p", "l", "a", "c", "e", "h", "o", "l", "d", "e", "r", ".", "p", "n", "g">>

----------------------------------------------------------------------------
(* Legacy run: discoverAllPoems of the multi-root loaders
   (src/unnamed/part_005 and part_008, the same text) *)

\* const directoriesToScan
directoriesToScan ==
    <<<<"P", "o", "e", "t", "r", "y", "/", "b", "y", "_", "l", "a", "n", "g", "u", "a", "g", "e", "/", "e", "n", "g", "l", "i", "s", "h", "/", "l", "e", "n", "g", "t", "h", "s", "/", "s", "h", "o", "r", "t", "/">>,
      <<"P", "o", "e", "t", "r", "y", "/", "b", "y", "_", "l", "a", "n", "g", "u", "a", "g", "e", "/", "e", "n", "g", "l", "i", "s", "h", "/", "f", "o", "r", "m", "s", "/", "f", "r", "e", "e", "_", "v", "e", "r", "s", "e", "/">>,
      <<"P", "o", "e", "t", "r", "y", "/", "b", "y", "_", "l", "a", "n", "g", "u", "a", "g", "e", "/", "e", "n", "g", "l", "i", "s", "h", "/", "f", "o", "r", "m", "s", "/", "s", "o", "n", "n", "e", "t", "/">>,
      <<"P", "o", "e", "t", "r", "y", "/", "b", "y", "_", "l", "a", "n", "g", "u", "a", "g", "e", "/", "h", "i", "n", "d", "i", "/", "l", "e", "n", "g", "t", "h", "s", "/", "s", "t", "a", "n", "d", "a", "r", "d", "/">>>>

\* longest listing a category directory answers with
MaxFiles == 1

\* the entries a category directory may list
LegacyNames == {<<"a", ".", "m", "d">>, <<"n", ".", "t", "x", "t">>}
LegacyEntries == [name : LegacyNames, type : {"file", "dir"}]

\* how the listing request of one directory may settle: a failure, or an
\* array of entries
LegacyAnswers ==
    [outcome : ListingFailures, contents : {<<>>}]
    \cup [outcome : {"ok"}, contents : SeqsUpTo(LegacyEntries, MaxFiles)]

\* files.filter(file => file.name.endsWith('.md') && file.type === 'file')
\* mapped to { path, name, directory }
MarkdownFiles(directory, files) ==
    LET IsMarkdown(file) == EndsWith(file.name, DotMd) /\ file.type = "file"
        kept == SelectSeq(files, IsMarkdown)
    IN [i \in 1..Len(kept) |-> [path |-> directory \o kept[i].name,
                                name |-> kept[i].name,
                                directory |-> directory]]

InitLegacy ==
    /\ LoaderIdle
    /\ ParserIdle
    /\ hostname \in RunHosts
    /\ imageFiles = {}
    /\ documents = StoreDocs
    /\ uses = <<>>
    /\ legacy = [pc |-> "scan", directory |-> 1, poems |-> <<>>, answers |-> <<>>]
    /\ enhanced = NoEnhanced
    /\ PageIdle

\* the listing request of the directory at hand settles. A response that
\* is not ok skips the if block, and every throw of the loop body is caught
\* by the inner try ('Continue with other directories'): the directory adds
\* nothing and the loop goes on, so the outer catch, which returns
\* getFallbackPoemPaths(), is never entered
ScanDirectory ==
    /\ legacy.pc = "scan"
    /\ \E answer \in LegacyAnswers :
          LET directory == directoriesToScan[legacy.directory]
              last == legacy.directory = Len(directoriesToScan)
          IN legacy' = [pc |-> IF last THEN "returned" ELSE "scan",
                        directory |-> IF last THEN legacy.directory
                                      ELSE legacy.directory + 1,
                        poems |-> IF answer.outcome = "ok"
                                  THEN legacy.poems
                                       \o MarkdownFiles(directory, answer.contents)
                                  ELSE legacy.poems,
                        answers |-> Append(legacy.answers, answer.outcome)]
    /\ UNCHANGED <<pvars, lvars, evars, uses, enhanced, store, handlers, dom>>

NextLegacy == ScanDirectory

SpecLegacy == InitLegacy /\ [][NextLegacy]_vars

\* C26: in the legacy multi-root discovery, if the listing of any one root
\* fails (transport error, non-success status, body that is no JSON array)
\* the result is the fallback list, not the concatenation of the entries of
\* the roots that succeeded.
C26_AnyRootFailureFallsBack ==
    (/\ legacy.pc = "returned"
     /\ \E i \in 1..Len(legacy.answers) : legacy.answers[i] \in ListingFailures)
    => legacy.poems = getFallbackPoemPaths

----------------------------------------------------------------------------
(* Delegating run: fetchAllPoems of the content loader that hands the call
   to window.fetchAllPoemsEnhanced
   (backup_folder_restructure_20250619_105702/js/content-loader.js) *)

\* const poemFilePaths, cut to NumStatic entries
poemFilePaths == [i \in 1..NumStatic |-> Poetry \o <<Slash>> \o Decimal(i) \o DotMd]

\* poemEntry of the content loader: no filePath, and the image is the one
\* the metadata declares
ContentEntry(filePath, doc) ==
    Spread(Spread((Kid :> ReplaceFirst(SplitPop(filePath, Slash), DotMd)),
                  doc.frontMatter),
           (Kcontent :> doc.poemText)
           @@ (Ktitle :> OrDefault(doc.frontMatter, Ktitle, Untitled))
           @@ (Kauthor :> OrDefault(doc.frontMatter, Kauthor, UnknownAuthor))
           @@ (Koriginal_path :> OrDefault(doc.frontMatter, Koriginal_path, filePath))
           @@ (Klanguage :> OrDefault(doc.frontMatter, Klanguage, unknown))
           @@ (Kform :> OrDefault(doc.frontMatter, Kform, unknown))
           @@ (Klength :> OrDefault(doc.frontMatter, Klength, unknown))
           @@ (Kimage :> OrDefault(doc.frontMatter, Kimage, <<>>)))

\* what a call of window.fetchAllPoemsEnhanced may resolve to: no record,
\* or the record of the first static path
EnhancedValues ==
    {<<>>, <<StaticEntry(staticPaths[1], parsePoemFileContent(DocKogarashi))>>}

\* how a call of window.fetchAllPoemsEnhanced may settle
EnhancedSettlements ==
    [outcome : {"resolved"}, value : EnhancedValues]
    \cup [outcome : {"rejected"}, value : {<<>>}]

\* a call that forgets its argument: window.fetchAllPoemsEnhanced()
EnhancedArgumentDropped(lim) == NoLimit

\* window.fetchAllPoemsEnhanced(limit)
EnhancedArgument(lim) == lim

InitDelegate ==
    /\ ParserIdle
    /\ loader = "content"
    /\ limit \in AllLimits
    /\ pc = "delegate"
    /\ listing = NoListing
    /\ poemFolders = <<>>
    /\ poems = <<>>
    /\ poemPaths = <<>>
    /\ pathsToProcess = <<>>
    /\ idx = 0
    /\ current = NotParsed
    /\ probes = <<>>
    /\ poemsData = <<>>
    /\ fetchLog = <<>>
    /\ checkLog = <<>>
    /\ discovery = "pending"
    /\ hostname = "manasp21.github.io"
    /\ imageFiles = {}
    /\ documents = StoreDocs
    /\ uses = <<>>
    /\ legacy = LegacyIdle
    /\ enhanced \in [defined : BOOLEAN, calls : {<<>>}, outcome : {"none"}, value : {<<>>}]
    /\ PageIdle

\* typeof window.fetchAllPoemsEnhanced === 'function': the call is made
\* with the caller's limit and awaited; its value is returned, and a
\* rejection is caught and leads to the static list
CallEnhanced ==
    /\ pc = "delegate"
    /\ enhanced.defined
    /\ \E settled \in EnhancedSettlements :
          /\ enhanced' = [defined |-> TRUE,
                          calls |-> Append(enhanced.calls, EnhancedArgument(limit)),
                          outcome |-> settled.outcome,
                          value |-> settled.value]
          /\ IF settled.outcome = "resolved"
             THEN /\ poemsData' = settled.value
                  /\ pc' = "done"
                  /\ UNCHANGED <<poemPaths, pathsToProcess, idx>>
             ELSE /\ DiscoveryReturns(poemFilePaths)
                  /\ UNCHANGED poemsData
    /\ UNCHANGED <<loader, limit, listing, poemFolders, poems, current, probes,
                   fetchLog, checkLog, discovery>>
    /\ UNCHANGED pvars
    /\ UNCHANGED <<evars, uses, legacy, store, handlers, dom>>

\* window.fetchAllPoemsEnhanced is not a function: the static list is
\* cut by the limit and the loop starts
EnhancedUndefined ==
    /\ pc = "delegate"
    /\ ~enhanced.defined
    /\ DiscoveryReturns(poemFilePaths)
    /\ UNCHANGED <<loader, limit, listing, poemFolders, poems, current, probes,
                   poemsData, fetchLog, checkLog, discovery>>
    /\ UNCHANGED pvars
    /\ UNCHANGED <<evars, uses, xvars>>

\* the GET of item idx of the static list succeeds; the document is parsed
\* by the quote-aware parser and the record pushed
FetchContent ==
    /\ pc = "fetch"
    /\ loader = "content"
    /\ \E doc \in documents :
          /\ poemsData' = Append(poemsData,
                                 ContentEntry(pathsToProcess[idx],
                                              parsePoemFileContentQuoted(doc)))
          /\ fetchLog' = Append(fetchLog, [path |-> ItemPath(idx),
                                           url |-> RequestUrl(ItemPath(idx)),
                                           outcome |-> "ok", body |-> doc])
    /\ Advance(AfterPush(idx, Len(pathsToProcess)))
    /\ UNCHANGED <<loader, limit, listing, poemFolders, poems, poemPaths,
                   pathsToProcess, current, probes,
                   checkLog, discovery>>
    /\ UNCHANGED pvars
    /\ UNCHANGED <<evars, uses, xvars>>

NextDelegate ==
    \/ CallEnhanced
    \/ EnhancedUndefined
    \/ FetchFails
    \/ FetchContent

SpecDelegate == InitDelegate /\ [][NextDelegate]_vars

----------------------------------------------------------------------------
(* Archive page run: archive.html loads js/content-loader.js, js/main.js and
   js/archive.js; the DOMContentLoaded handler of main.js and the two
   handlers of archive.js each await their own call of window.fetchAllPoems
   and then write into the page *)

\* entries of poemFilePaths of js/content-loader.js kept by the model
NumPage == 2

\* the first entries of const poemFilePaths of js/content-loader.js
pagePoemFilePaths ==
    LET listed == <<<<"P", "o", "e", "t", "r", "y", "/", "b", "y", "_", "l", "a", "n", "g", "u", "a", "g", "e", "/", "e", "n", "g", "l", "i", "s", "h", "/", "l", "e", "n", "g", "t", "h", "s", "/", "s", "h", "o", "r", "t", "/", "a", "-", "l", "e", "a", "f", "-", "i", "n", "-", "a", "-", "s", "e", "a", "-", "o", "f", "-", "g", "r", "e", "e", "n", "_", "a", "-", "l", "e", "a", "f", "-", "i", "n", "-", "a", "-", "s", "e", "a", "-", "o", "f", "_", "s", "h", "o", "r", "t", "_", "e", "n", ".", "m", "d">>,
                    <<"P", "o", "e", "t", "r", "y", "/", "b", "y", "_", "l", "a", "n", "g", "u", "a", "g", "e", "/", "e", "n", "g", "l", "i", "s", "h", "/", "l", "e", "n", "g", "t", "h", "s", "/", "s", "h", "o", "r", "t", "/", "a", "-", "l", "i", "g", "h", "t", "-", "t", "h", "a", "t", "-", "n", "e", "v", "e", "r", "-", "g", "o", "e", "s", "-", "o", "u", "t", "_", "t", "h", "e", "r", "e", "-", "i", "s", "-", "a", "-", "l", "i", "g", "h", "t", "-", "t", "h", "a", "t", "_", "s", "h", "o", "r", "t", "_", "e", "n", ".", "m", "d">>,
                    <<"P", "o", "e", "t", "r", "y", "/", "b", "y", "_", "l", "a", "n", "g", "u", "a", "g", "e", "/", "e", "n", "g", "l", "i", "s", "h", "/", "l", "e", "n", "g", "t", "h", "s", "/", "s", "h", "o", "r", "t", "/", "a", "-", "p", "a", "r", "t", "-", "o", "f", "-", "t", "h", "e", "-", "c", "r", "o", "w", "d", "_", "a", "-", "p", "a", "r", "t", "-", "o", "f", "-", "t", "h", "e", "-", "c", "r", "o", "w", "d", "_", "s", "h", "o", "r", "t", "_", "e", "n", ".", "m", "d">>,
                    <<"P", "o", "e", "t", "r", "y", "/", "b", "y", "_", "l", "a", "n", "g", "u", "a", "g", "e", "/", "e", "n", "g", "l", "i", "s", "h", "/", "l", "e", "n", "g", "t", "h", "s", "/", "s", "h", "o", "r", "t", "/", "b", "e", "f", "o", "r", "e", "-", "t", "h", "e", "-", "b", "r", "e", "a", "k", "-", "o", "f", "-", "d", "a", "y", "_", "b", "e", "f", "o", "r", "e", "-", "t", "h", "e", "-", "b", "r", "e", "a", "k", "-", "o", "f", "-", "d", "a", "y", "_", "s", "h", "o", "r", "t", "_", "e", "n", ".", "m", "d">>>>
    IN [i \in 1..NumPage |-> listed[i]]

\* the handlers in the order in which the page registers them: main.js,
\* then the two handlers of js/archive.js
Handlers == {"main", "archive", "archive2"}

\* how the file store answers the GET of a path, the same for every call
\* made while the page loads
Responses ==
    [outcome : {"status", "neterr"}, body : {<<>>}]
    \cup [outcome : {"ok"}, body : StoreDocs]

Stores == [1..NumPage -> Responses]

\* the record fetchAllPoems of js/content-loader.js builds of each document
PageEntry == [i \in 1..NumPage |->
                [doc \in StoreDocs |->
                    ContentEntry(pagePoemFilePaths[i], parsePoemFileContent(doc))]]

\* the order of localeCompare on the characters of the model's titles:
\* punctuation before letters, a letter and its capital together
Lowercase == <<"a", "b", "c", "d", "e", "f", "g", "h", "i", "j", "k", "l", "m", "n", "o", "p", "q", "r", "s", "t", "u", "v", "w", "x", "y", "z">>
Uppercase == <<"A", "B", "C", "D", "E", "F", "G", "H", "I", "J", "K", "L", "M", "N", "O", "P", "Q", "R", "S", "T", "U", "V", "W", "X", "Y", "Z">>
CollationRank(c) ==
    LET letters == {i \in 1..Len(Lowercase) : Lowercase[i] = c \/ Uppercase[i] = c}
    IN IF letters = {} THEN 0 ELSE CHOOSE i \in letters : TRUE

\* a.localeCompare(b) < 0, = 0 or > 0 as -1, 0 or 1
RECURSIVE localeCompare(_, _)
localeCompare(a, b) ==
    IF a = <<>> /\ b = <<>> THEN 0
    ELSE IF a = <<>> THEN -1
    ELSE IF b = <<>> THEN 1
    ELSE IF CollationRank(a[1]) < CollationRank(b[1]) THEN -1
    ELSE IF CollationRank(a[1]) > CollationRank(b[1]) THEN 1
    ELSE localeCompare(Tail(a), Tail(b))

\* one step of the (stable) sort by title
InsertByTitle(sorted, x) ==
    LET notAbove == {i \in 1..Len(sorted) :
                        localeCompare(sorted[i][Ktitle], x[Ktitle]) <= 0}
        at == IF notAbove = {} THEN 0 ELSE Max(notAbove)
    IN SubSeq(sorted, 1, at) \o <<x>> \o SubSeq(sorted, at + 1, Len(sorted))

\* filteredPoems.sort((a, b) => (a.title || '').localeCompare(b.title || ''))
RECURSIVE SortByTitle(_)
SortByTitle(list) ==
    IF Len(list) = 0 THEN <<>>
    ELSE InsertByTitle(SortByTitle(SubSeq(list, 1, Len(list) - 1)), list[Len(list)])

\* applyFiltersAndSort of js/archive.js as the page loads: no search text,
\* every filter on its first option (value ''), sort-by on title_asc
applyFiltersAndSort(allPoemsData) == SortByTitle(allPoemsData)

\* the class renderPoems gives the content area; currentView is 'grid'
\* until the visitor picks another view
ContainerClass(currentView) ==
    IF currentView = "list" THEN "poem-list"
    ELSE IF currentView = "compact" THEN "poem-compact"
    ELSE "poem-grid"

\* #archive-content-area as archive.html ships it
StaticPage == [className |-> "poem-grid", shown |-> <<>>, by |-> "static"]

\* a handler suspended at the GET of item idx of its own call
HandlerAt(i) ==
    [pc |-> "fetch", idx |-> i, poemsData |-> <<>>,
     allPoemsData |-> <<>>, filteredPoemsData |-> <<>>]

\* what the handler writes into the page once its call has returned
\* poems: loadAndDisplayHomepageContent of js/main.js looks for the first
\* element of class poem-grid, on archive.html the content area as long as
\* it carries that class, clears it and appends a card per poem in the
\* order returned; initializeArchive of js/archive.js sorts, sets the class
\* of the content area and appends a card per poem of the sorted list
Rendered(h, page, returned) ==
    IF h = "main"
    THEN IF page.className = "poem-grid"
         THEN [className |-> page.className, shown |-> returned, by |-> h]
         ELSE page
    ELSE [className |-> ContainerClass("grid"),
          shown |-> applyFiltersAndSort(returned), by |-> h]

\* a single poemsData array that every call pushes to
AccumulatorShared(h) == "main"

\* const poemsData = [] is local to each call of fetchAllPoems
Accumulator(h) == h

InitArchive ==
    /\ LoaderIdle
    /\ ParserIdle
    /\ hostname = "manasp21.github.io"
    /\ imageFiles = {}
    /\ documents = StoreDocs
    /\ uses = <<>>
    /\ legacy = LegacyIdle
    /\ enhanced = NoEnhanced
    /\ store \in Stores
    /\ handlers = [h \in Handlers |-> HandlerAt(1)]
    /\ dom = StaticPage

\* the GET of the item at hand of handler h's call settles: a document is
\* parsed and its record pushed, any other answer skips the item; after the
\* last item fetchAllPoems returns poemsData and the handler, resumed in
\* the same turn, writes into the page
HandlerFetch(h) ==
    /\ handlers[h].pc = "fetch"
    /\ LET i == handlers[h].idx
           acc == Accumulator(h)
           pushed == IF store[i].outcome = "ok"
                     THEN Append(handlers[acc].poemsData, PageEntry[i][store[i].body])
                     ELSE handlers[acc].poemsData
           last == i = Len(pagePoemFilePaths)
       IN /\ handlers' =
                [handlers EXCEPT
                    ![acc].poemsData = pushed,
                    ![h].idx = i + 1,
                    ![h].pc = IF last THEN "rendered" ELSE "fetch",
                    ![h].allPoemsData = IF last THEN pushed ELSE @,
                    ![h].filteredPoemsData =
                        IF last /\ h # "main" THEN applyFiltersAndSort(pushed) ELSE @]
          /\ dom' = IF last THEN Rendered(h, dom, pushed) ELSE dom
    /\ UNCHANGED store
    /\ UNCHANGED <<pvars, lvars, evars, uses, legacy, enhanced>>

NextArchive == \E h \in Handlers : HandlerFetch(h)

SpecArchive == InitArchive /\ [][NextArchive]_vars

\* the records a call of fetchAllPoems that runs alone has pushed after
\* its first n items
RECURSIVE AloneRecords(_)
AloneRecords(n) ==
    IF n = 0 THEN <<>>
    ELSE IF store[n].outcome = "ok"
         THEN Append(AloneRecords(n - 1), PageEntry[n][store[n].body])
         ELSE AloneRecords(n - 1)

\* every call holds the records a call running alone holds at that item
CallsAlone ==
    \A h \in Handlers :
        /\ handlers[h].poemsData = AloneRecords(handlers[h].idx - 1)
        /\ handlers[h].pc = "rendered" =>
              handlers[h].allPoemsData = AloneRecords(Len(pagePoemFilePaths))

\* C22: overlapping invocations of the pipeline started by the handlers of
\* one page, their awaits interleaved in any order, each return the record
\* sequence they would return when run alone, and a step of one invocation
\* leaves the partial result of every other one as it was.
C22_OverlappingCallsIsolated ==
    [][/\ \A h, g \in Handlers :
             (h # g /\ handlers'[h] # handlers[h]) => handlers'[g] = handlers[g]
       /\ CallsAlone']_vars

\* C22 witness: the call of archive.js returned both records while the
\* call of main.js, started before it, was still waiting for its second
\* document with one record pushed.
C22_Witness ==
    /\ handlers # <<>>
    /\ handlers["archive"].pc = "rendered"
    /\ Len(handlers["archive"].allPoemsData) = 2
    /\ handlers["main"].pc = "fetch"
    /\ handlers["main"].idx = 2
    /\ Len(handlers["main"].poemsData) = 1

\* C28: once the archive handler has rendered, the content area shows
\* exactly filteredPoemsData, in every interleaving: the homepage handler
\* of main.js finishing later does not replace the archive's rendering.
C28_ArchiveRenderingKept ==
    (handlers # <<>> /\ handlers["archive"].pc = "rendered") =>
        dom.shown = handlers["archive"].filteredPoemsData

====
